---- MODULE Spec2Model ----
(***************************************************************************)
(* Model of the BOESDKParser REST client (src/sdk_parser_new.py) talking   *)
(* to a server whose answers are unconstrained: every request either fails *)
(* at transport level or receives some status code and some body.          *)
(*                                                                         *)
(* The client is single-threaded and synchronous: one operation runs at a  *)
(* time.  `call` holds the observable record of the operation that ran     *)
(* last (the requests it sent, the last response it received, and whether  *)
(* it returned or raised); the caller takes the result (Return) before it  *)
(* issues the next call.                                                   *)
(*                                                                         *)
(* Spec runs every operation of the client; SpecFolders runs the recursive *)
(* folder listing alone, over larger hierarchies.  Definitions marked      *)
(* "faulty variant" are plausible slips of the line next to them; the      *)
(* properties at the end are expected to tell them apart from the code.    *)
(***************************************************************************)
EXTENDS Integers, Sequences, FiniteSets, TLC

VARIABLES
    headers,      \* self.headers: header name -> value
    logon_token,  \* self.logon_token
    session,      \* self.session: "open" until session.close()
    issued,       \* token of the most recent authentication that returned
    call,         \* record of the last operation (see Idle)
    tree,         \* get_folders: the server's folder hierarchy, folder -> listed children
    failing,      \* get_folders: folders whose child listing answers non-200
    failStatus,   \* get_folders: the status those listings answer with
    stack,        \* get_folders: the Python call stack of the recursion
    folder_list   \* get_folders: the accumulator shared by all frames

vars == <<headers, logon_token, session, issued, call, tree, failing, failStatus,
          stack, folder_list>>

clientVars == <<headers, logon_token, session, issued>>
folderVars == <<tree, failing, failStatus, stack, folder_list>>

----------------------------------------------------------------------------
(* Values *)

None == "None"                       \* Python's None
Tokens == {"tokA", "tokB"}           \* opaque tokens a server may issue
Users == {"Administrator", "guest"}
Passwords == {"secret"}
Templates == {"secEnterprise", "secLDAP"}   \* the template's own content
DocIds == {101, 102}
DpIds == {"DP0"}
UniverseIds == {5001}

TokenHeader == "X-SAP-LogonToken"
TrustedHeader == "X-SAP-TRUSTED-USER"

\* __init__: the header mapping, the session and the token after construction
InitHeaders == [h \in {"Accept", "Content-Type"} |-> "application/json"]

\* the record of "no operation has run / the caller took the last result"
Idle == [op |-> "none", outcome |-> "none", kind |-> "none", value |-> None,
         exc |-> None, sent |-> <<>>,
         resp |-> [status |-> 0, body |-> [kind |-> "none"]],
         first |-> [status |-> 0, body |-> [kind |-> "none"]],
         pre |-> [headers |-> << >>, logon_token |-> None, issued |-> None]]

IsIdle == call.op = "none"

\* a request as the session sends it
Request(method, url, hdrs, body) ==
    [method |-> method, url |-> url, headers |-> hdrs, body |-> body]

\* the value of header name h of a header mapping, None when absent
HeaderOf(hdrs, h) == IF h \in DOMAIN hdrs THEN hdrs[h] ELSE None

\* a finished call
\* the shared state as the call found it
Pre == [headers |-> headers, logon_token |-> logon_token, issued |-> issued]

\* the transport gave no response at all (requests raises ConnectionError,
\* a RequestException)
NoResponse == [status |-> 0, body |-> [kind |-> "none"]]

\* a finished call: `resp` is the last response it received, `first` the
\* response to its first request when it sent two
Returned(op, kind, value, sent, resp) ==
    [op |-> op, outcome |-> "returned", kind |-> kind, value |-> value,
     exc |-> None, sent |-> sent, resp |-> resp, first |-> NoResponse, pre |-> Pre]

Raised(op, exc, sent, resp) ==
    [op |-> op, outcome |-> "raised", kind |-> "none", value |-> None,
     exc |-> exc, sent |-> sent, resp |-> resp, first |-> NoResponse, pre |-> Pre]

WithFirst(c, first) == [c EXCEPT !.first = first]

----------------------------------------------------------------------------
(* Responses of the document endpoints, and what requests makes of them *)

DocStatuses == {200, 204, 304, 404, 500, 503}

\* bodies a document endpoint may answer with: the JSON the operation expects,
\* the error JSON with the "not a Webi document" code, the error JSON with
\* another code, a JSON object with neither key, and text that is not JSON
DocBodies ==
    {[kind |-> "wellformed", error_code |-> None],
     [kind |-> "error", error_code |-> "WSR 00999"],
     [kind |-> "error", error_code |-> "WSR 00100"],
     [kind |-> "empty", error_code |-> None],
     [kind |-> "notjson", error_code |-> None]}

DocResponses == [status : DocStatuses, body : DocBodies]

Is2xx(status) == status \in 200..299

\* resp.raise_for_status() raises HTTPError (a RequestException) for 4xx and 5xx
\* faulty variant: only server errors raise
RaisesForStatusOnly5xx(status) == status >= 500 /\ status < 600
RaisesForStatus(status) == status >= 400 /\ status < 600

\* resp.json() raises when the body is not JSON.  The exception is
\* requests.exceptions.JSONDecodeError: a ValueError always, and a
\* RequestException as well from requests 2.27 on; the repository pins no
\* version, so `caught` ranges over both builds.
JsonFails(body) == body.kind = "notjson"

----------------------------------------------------------------------------
(* Authentication lifecycle *)

AuthStatuses == {200, 201, 401, 500}

\* bodies of a login response: JSON with a logonToken, JSON without, not JSON
AuthBodies ==
    [kind : {"token"}, logonToken : Tokens]
      \cup {[kind |-> "nokey", logonToken |-> None],
            [kind |-> "notjson", logonToken |-> None]}

\* bodies of the template response
TemplateBodies ==
    [kind : {"template"}, template : Templates]
      \cup {[kind |-> "notjson", template |-> None]}

\* _get_auth_info: GET logon/long with the shared headers
GetAuthInfoRequest == Request("GET", "logon/long", headers, None)

\* _send_auth_info: the payload is the fetched template with the credentials filled in
\* faulty variant: a template kept from an earlier call is filled in
PayloadStaleTemplate(template, username, password) ==
    [template |-> "secEnterprise", userName |-> username, password |-> password]
Payload(template, username, password) ==
    [template |-> template, userName |-> username, password |-> password]

SendAuthInfoRequest(template, username, password) ==
    Request("POST", "logon/long", headers, Payload(template, username, password))

\* _get_trusted_token: a copy of the shared headers plus the trusted-user header
TrustedHeaders(username) ==
    [h \in DOMAIN headers \cup {TrustedHeader} |->
        IF h = TrustedHeader THEN username ELSE headers[h]]

\* line 87: the trusted-user header goes into a copy, so the shared mapping is
\* what it was
\* faulty variant: no copy, the shared mapping itself gets the header
SharedHeadersAliased(username) == TrustedHeaders(username)
SharedHeaders(username) == headers

GetTrustedTokenRequest(username) ==
    Request("GET", "logon/trusted", TrustedHeaders(username), None)

\* the login succeeded: resp.status_code == 200
\* faulty variant: any 2xx counts as success
LogonOkAny2xx(status) == status \in 200..299
LogonOk(status) == status = 200

\* self.headers['X-SAP-LogonToken'] = self.logon_token
\* faulty variant: the header is not updated
InstallTokenForgotten(hdrs, token) == hdrs
InstallToken(hdrs, token) ==
    [h \in DOMAIN hdrs \cup {TokenHeader} |->
        IF h = TokenHeader THEN token ELSE hdrs[h]]

\* the part both flows share once the login response is in (lines 120-127, 141-146)
FinishLogon(op, shared, sent, first, resp) ==
    IF LogonOk(resp.status)
    THEN CASE resp.body.kind = "notjson" ->
                /\ call' = WithFirst(Raised(op, "ValueError", sent, resp), first)
                /\ headers' = shared
                /\ UNCHANGED <<logon_token, session, issued>>
           [] resp.body.kind = "nokey" ->
                /\ call' = WithFirst(Raised(op, "KeyError", sent, resp), first)
                /\ headers' = shared
                /\ UNCHANGED <<logon_token, session, issued>>
           [] OTHER ->
                /\ logon_token' = resp.body.logonToken
                /\ headers' = InstallToken(shared, resp.body.logonToken)
                /\ issued' = resp.body.logonToken
                /\ call' = WithFirst(Returned(op, "none", None, sent, resp), first)
                /\ UNCHANGED session
    ELSE /\ call' = WithFirst(Raised(op, "Exception", sent, resp), first)
         /\ headers' = shared
         /\ UNCHANGED <<logon_token, session, issued>>

set_logon_token ==
    /\ IsIdle
    /\ \E username \in Users, password \in Passwords :
        LET get == GetAuthInfoRequest IN
        \/ \* the template fetch gets no response
           /\ call' = Raised("set_logon_token", "ConnectionError", <<get>>,
                             NoResponse)
           /\ UNCHANGED clientVars
        \/ \E tstatus \in {200, 500}, tbody \in TemplateBodies :
            LET tresp == [status |-> tstatus, body |-> tbody] IN
            IF tbody.kind = "notjson"
            THEN \* _get_auth_info().json() raises
                 /\ call' = Raised("set_logon_token", "ValueError", <<get>>,
                                   tresp)
                 /\ UNCHANGED clientVars
            ELSE LET post == SendAuthInfoRequest(tbody.template, username, password)
                 IN
                 \/ /\ call' = WithFirst(Raised("set_logon_token", "ConnectionError",
                                                <<get, post>>, NoResponse), tresp)
                    /\ UNCHANGED clientVars
                 \/ \E status \in AuthStatuses, body \in AuthBodies :
                      FinishLogon("set_logon_token", headers, <<get, post>>, tresp,
                                  [status |-> status, body |-> body])
    /\ UNCHANGED folderVars

set_trusted_token ==
    /\ IsIdle
    /\ \E username \in Users :
        LET get == GetTrustedTokenRequest(username) IN
        \/ /\ call' = Raised("set_trusted_token", "ConnectionError", <<get>>,
                             NoResponse)
           /\ headers' = SharedHeaders(username)
           /\ UNCHANGED <<logon_token, session, issued>>
        \/ \E status \in AuthStatuses, body \in AuthBodies :
             FinishLogon("set_trusted_token", SharedHeaders(username), <<get>>, NoResponse,
                         [status |-> status, body |-> body])
    /\ UNCHANGED folderVars

\* bo_logoff: POST v1/logoff, print the status, close the session
bo_logoff ==
    /\ IsIdle
    /\ LET post == Request("POST", "v1/logoff", headers, None) IN
        \/ \* session.post raises: the print and session.close() are not reached
           /\ call' = Raised("bo_logoff", "ConnectionError", <<post>>, NoResponse)
           /\ UNCHANGED session
        \/ \E status \in {200, 401, 500} :
            /\ call' = Returned("bo_logoff", "none", None, <<post>>,
                                [status |-> status, body |-> [kind |-> "none"]])
            /\ session' = "closed"
    /\ UNCHANGED <<headers, logon_token, issued>>
    /\ UNCHANGED folderVars

----------------------------------------------------------------------------
(* Document operations: one request each, inside try/except RequestException *)

WebiUrl(path, webi_doc_id, dp_id) ==
    [root |-> "raylight/v1", path |-> path, doc |-> webi_doc_id, dp |-> dp_id]

\* get_doc_details
get_doc_details ==
    /\ IsIdle
    /\ \E webi_doc_id \in DocIds :
        LET req == Request("GET", WebiUrl("documents/{}", webi_doc_id, None), headers, None)
            op == "get_doc_details" IN
        \/ call' = Returned(op, "none", None, <<req>>, NoResponse)
        \/ \E resp \in DocResponses :
            IF RaisesForStatus(resp.status)
            THEN call' = Returned(op, "none", None, <<req>>, resp)
            ELSE CASE JsonFails(resp.body) ->
                        \E caught \in BOOLEAN :
                          call' = IF caught
                                  THEN Returned(op, "none", None, <<req>>, resp)
                                  ELSE Raised(op, "ValueError", <<req>>, resp)
                   [] resp.body.kind = "wellformed" ->
                        call' = Returned(op, "dict",
                                         [webi_doc_name |-> "name", webi_doc_path |-> "path",
                                          webi_doc_cuid |-> "cuid", webi_doc_scheduled |-> "false",
                                          webi_doc_state |-> "Unused"],
                                         <<req>>, resp)
                   [] OTHER -> call' = Raised(op, "KeyError", <<req>>, resp)
    /\ UNCHANGED clientVars
    /\ UNCHANGED folderVars

\* get_doc_status, lines 479-490: the except branch
KnownErrorCode == "WSR 00999"

\* faulty variant: every 5xx body is inspected
InspectsBodyAny5xx(status) == status >= 500
InspectsBody(status) == status = 500

DocStatusFailure(op, req, resp) ==
    IF InspectsBody(resp.status)
    THEN IF JsonFails(resp.body)
         THEN Returned(op, "none", None, <<req>>, resp)          \* except ValueError
         ELSE IF resp.body.kind = "error" /\ resp.body.error_code = KnownErrorCode
              THEN Returned(op, "str", KnownErrorCode, <<req>>, resp)
              ELSE Returned(op, "none", None, <<req>>, resp)     \* falls off the end
    ELSE Returned(op, "none", None, <<req>>, resp)

get_doc_status ==
    /\ IsIdle
    /\ \E webi_doc_id \in DocIds :
        LET req == Request("GET", WebiUrl("documents/{}", webi_doc_id, None), headers, None)
            op == "get_doc_status" IN
        \/ \* session.get raises before `resp` is bound; the handler reads `resp`
           call' = Raised(op, "UnboundLocalError", <<req>>, NoResponse)
        \/ \E resp \in DocResponses :
            IF RaisesForStatus(resp.status)
            THEN call' = DocStatusFailure(op, req, resp)
            ELSE CASE JsonFails(resp.body) ->
                        \E caught \in BOOLEAN :
                          call' = IF caught
                                  THEN DocStatusFailure(op, req, resp)
                                  ELSE Raised(op, "ValueError", <<req>>, resp)
                   [] resp.body.kind = "wellformed" ->
                        call' = Returned(op, "dict", [webi_doc_state |-> "Unused"],
                                         <<req>>, resp)
                   [] OTHER -> call' = Raised(op, "KeyError", <<req>>, resp)
    /\ UNCHANGED clientVars
    /\ UNCHANGED folderVars

\* delete_webi_doc
delete_webi_doc ==
    /\ IsIdle
    /\ \E webi_doc_id \in DocIds :
        LET req == Request("DELETE", WebiUrl("documents/{}", webi_doc_id, None), headers, None)
            op == "delete_webi_doc" IN
        \/ call' = Returned(op, "bool", FALSE, <<req>>, NoResponse)
        \/ \E resp \in DocResponses :
            call' = IF RaisesForStatus(resp.status)
                    THEN Returned(op, "bool", FALSE, <<req>>, resp)
                    ELSE Returned(op, "bool", TRUE, <<req>>, resp)
    /\ UNCHANGED clientVars
    /\ UNCHANGED folderVars

\* save_webi_doc
save_webi_doc ==
    /\ IsIdle
    /\ \E webi_doc_id \in DocIds :
        LET req == Request("POST",
                           WebiUrl("documents/{}?overwrite=true&withComments=true",
                                   webi_doc_id, None),
                           headers,
                           [document |-> [name |-> "webi_doc_name", folderId |-> -1]])
            op == "save_webi_doc" IN
        \/ call' = Returned(op, "none", None, <<req>>, NoResponse)
        \/ \E resp \in DocResponses :
            call' = Returned(op, "none", None, <<req>>, resp)
    /\ UNCHANGED clientVars
    /\ UNCHANGED folderVars

\* get_dp
get_dp ==
    /\ IsIdle
    /\ \E webi_doc_id \in DocIds :
        LET req == Request("GET", WebiUrl("documents/{}/dataproviders", webi_doc_id, None),
                           headers, None)
            op == "get_dp" IN
        \/ call' = Returned(op, "list", <<>>, <<req>>, NoResponse)
        \/ \E resp \in DocResponses :
            IF RaisesForStatus(resp.status)
            THEN call' = Returned(op, "list", <<>>, <<req>>, resp)
            ELSE CASE JsonFails(resp.body) ->
                        \E caught \in BOOLEAN :
                          call' = IF caught
                                  THEN Returned(op, "list", <<>>, <<req>>, resp)
                                  ELSE Raised(op, "ValueError", <<req>>, resp)
                   [] resp.body.kind = "wellformed" ->
                        call' = Returned(op, "list", <<"DP0">>, <<req>>, resp)
                   [] OTHER -> call' = Raised(op, "KeyError", <<req>>, resp)
    /\ UNCHANGED clientVars
    /\ UNCHANGED folderVars

\* get_dp_details
get_dp_details ==
    /\ IsIdle
    /\ \E webi_doc_id \in DocIds, dp_id \in DpIds :
        LET req == Request("GET", WebiUrl("documents/{}/dataproviders/{}", webi_doc_id, dp_id),
                           headers, None)
            op == "get_dp_details" IN
        \/ call' = Returned(op, "none", None, <<req>>, NoResponse)
        \/ \E resp \in DocResponses :
            IF RaisesForStatus(resp.status)
            THEN call' = Returned(op, "none", None, <<req>>, resp)
            ELSE CASE JsonFails(resp.body) ->
                        \E caught \in BOOLEAN :
                          call' = IF caught
                                  THEN Returned(op, "none", None, <<req>>, resp)
                                  ELSE Raised(op, "ValueError", <<req>>, resp)
                   [] resp.body.kind = "wellformed" ->
                        call' = Returned(op, "dict",
                                         [id |-> dp_id, dataSourceId |-> "809161",
                                          dataSourceType |-> "unx",
                                          dataSourceName |-> "eFashion"],
                                         <<req>>, resp)
                   [] OTHER -> call' = Raised(op, "KeyError", <<req>>, resp)
    /\ UNCHANGED clientVars
    /\ UNCHANGED folderVars

\* purge_dp
purge_dp ==
    /\ IsIdle
    /\ \E webi_doc_id \in DocIds, dp_id \in DpIds :
        LET req == Request("PUT",
                           WebiUrl("documents/{}/dataproviders/{}?purge=true",
                                   webi_doc_id, dp_id),
                           headers, None)
            op == "purge_dp" IN
        \/ call' = Returned(op, "bool", FALSE, <<req>>, NoResponse)
        \/ \E resp \in DocResponses :
            call' = IF RaisesForStatus(resp.status)
                    THEN Returned(op, "bool", FALSE, <<req>>, resp)
                    ELSE Returned(op, "bool", TRUE, <<req>>, resp)
    /\ UNCHANGED clientVars
    /\ UNCHANGED folderVars

----------------------------------------------------------------------------
(* Universe resolver *)

UniverseTypes == {"unx", "UNX", "unv", "Unv", "dfx"}   \* as the server spells them

\* str.lower() on the spellings above
Lower(t) == CASE t = "UNX" -> "unx" [] t = "Unv" -> "unv" [] OTHER -> t

UniverseBodies ==
    [kind : {"universe"}, type : UniverseTypes]
      \cup {[kind |-> "empty", type |-> None], [kind |-> "notjson", type |-> None]}

\* the outcome of get_univ_details on a response: <<"ok", u_type>> or <<"raise", exception>>
UnivDetails(resp) ==
    IF resp.status = 200
    THEN CASE resp.body.kind = "notjson" -> <<"raise", "ValueError">>
           [] resp.body.kind = "empty" -> <<"raise", "KeyError">>
           [] OTHER -> <<"ok", Lower(resp.body.type)>>
    ELSE <<"raise", "Exception">>

UnivDetailsRequest(universe_id) ==
    Request("GET", [root |-> "raylight/v1", path |-> "universes/{}", id |-> universe_id],
            headers, None)

get_univ_details ==
    /\ IsIdle
    /\ \E universe_id \in UniverseIds :
        LET get == UnivDetailsRequest(universe_id)
            op == "get_univ_details" IN
        \/ call' = Raised(op, "ConnectionError", <<get>>, NoResponse)
        \/ \E status \in {200, 404}, body \in UniverseBodies :
            LET resp == [status |-> status, body |-> body]
                d == UnivDetails(resp) IN
            call' = IF d[1] = "ok"
                    THEN Returned(op, "dict",
                                  [u_type |-> d[2], u_name |-> "u_name", u_cuid |-> "u_cuid"],
                                  <<get>>, resp)
                    ELSE Raised(op, d[2], <<get>>, resp)
    /\ UNCHANGED clientVars
    /\ UNCHANGED folderVars

\* get_universes
get_universes ==
    /\ IsIdle
    /\ LET get == Request("GET", [root |-> "raylight/v1", path |-> "universes", id |-> None],
                          headers, None)
           op == "get_universes" IN
        \/ call' = Raised(op, "ConnectionError", <<get>>, NoResponse)
        \/ \E status \in {200, 404}, kind \in {"wellformed", "empty", "notjson"} :
            LET resp == [status |-> status, body |-> [kind |-> kind]] IN
            call' = IF status = 200
                    THEN CASE kind = "notjson" -> Raised(op, "ValueError", <<get>>, resp)
                           [] kind = "empty" -> Raised(op, "KeyError", <<get>>, resp)
                           [] OTHER -> Returned(op, "list",
                                                <<[u_id |-> 5001, u_name |-> "u_name",
                                                   u_folderid |-> 0]>>,
                                                <<get>>, resp)
                    ELSE Raised(op, "Exception", <<get>>, resp)
    /\ UNCHANGED clientVars
    /\ UNCHANGED folderVars

MaxReports == 2

TotalKey == "SI_TOTAL"
ReportKeys == {ToString(i) : i \in 1..MaxReports}
ReportValues == {1, 7001}

\* sequences of distinct keys, as a JSON object lists them
KeySeqs ==
    {ks \in UNION {[1..n -> ReportKeys \cup {TotalKey}] : n \in 0..(MaxReports + 1)} :
        \A i, j \in DOMAIN ks : i # j => ks[i] # ks[j]}

\* the harvested field: <<key, value>> entries in the order of the JSON object;
\* the server sets SI_TOTAL to the number of reports
FieldItems ==
    {[i \in DOMAIN ks |->
        <<ks[i], IF ks[i] = TotalKey
                 THEN Cardinality({j \in DOMAIN ks : ks[j] # TotalKey})
                 ELSE vs[i]>>] :
        ks \in KeySeqs, vs \in [1..(MaxReports + 1) -> ReportValues]}

ReportFields == {"SI_SL_DOCUMENTS", "SI_WEBI"}

QueryBodies ==
    [kind : {"entries"}, SI_ID : UniverseIds, SI_NAME : {"eFashion"},
     field : ReportFields, items : FieldItems]
      \cup {[kind |-> k, SI_ID |-> 0, SI_NAME |-> None, field |-> None, items |-> << >>] :
              k \in {"noentries", "empty", "notjson"}}

\* the two query templates (lines 197-206): the field the query names, the kind
\* it selects, and the field the reports are harvested from
KnownType(universe_type) == universe_type \in {"unx", "unv"}

\* faulty variant: the two templates swapped
QueryFieldSwapped(universe_type) ==
    IF universe_type = "unx" THEN "SI_WEBI" ELSE "SI_SL_DOCUMENTS"
QueryField(universe_type) ==
    IF universe_type = "unx" THEN "SI_SL_DOCUMENTS" ELSE "SI_WEBI"

report_field(universe_type) ==
    IF universe_type = "unx" THEN "SI_SL_DOCUMENTS" ELSE "SI_WEBI"

QueryPayload(universe_type, universe_id) ==
    [select |-> <<"SI_ID", "SI_NAME", QueryField(universe_type)>>,
     from |-> "CI_APPOBJECTS",
     SI_KIND |-> IF universe_type = "unx" THEN "DSL.MetaDataFile" ELSE "Universe",
     SI_ID |-> universe_id]

\* [value for key, value in ....items() if key != 'SI_TOTAL']
\* faulty variant: SI_TOTAL is taken to be the last entry
RECURSIVE HarvestAllButLast(_)
HarvestAllButLast(items) ==
    IF Len(items) <= 1 THEN << >>
    ELSE <<Head(items)[2]>> \o HarvestAllButLast(Tail(items))
RECURSIVE Harvest(_)
Harvest(items) ==
    IF items = << >> THEN << >>
    ELSE IF Head(items)[1] # TotalKey
         THEN <<Head(items)[2]>> \o Harvest(Tail(items))
         ELSE Harvest(Tail(items))

\* lines 210-217: the outcome on the query response
RelatedReports(op, sent, resp, universe_type) ==
    IF resp.status = 200
    THEN CASE resp.body.kind = "notjson" -> Raised(op, "ValueError", sent, resp)
           [] resp.body.kind = "empty" -> Raised(op, "KeyError", sent, resp)
           [] resp.body.kind = "noentries" -> Raised(op, "IndexError", sent, resp)
           [] resp.body.field # report_field(universe_type) ->
                Raised(op, "KeyError", sent, resp)
           [] OTHER ->
                Returned(op, "tuple",
                         <<resp.body.SI_ID, resp.body.SI_NAME, Harvest(resp.body.items)>>,
                         sent, resp)
    ELSE Raised(op, "Exception", sent, resp)

get_universe_related_reports ==
    /\ IsIdle
    /\ \E universe_id \in UniverseIds :
        LET get == UnivDetailsRequest(universe_id)
            op == "get_universe_related_reports" IN
        \/ call' = Raised(op, "ConnectionError", <<get>>, NoResponse)
        \/ \E dstatus \in {200, 404}, dbody \in UniverseBodies :
            LET dresp == [status |-> dstatus, body |-> dbody]
                d == UnivDetails(dresp) IN
            IF d[1] = "raise"
            THEN call' = Raised(op, d[2], <<get>>, dresp)
            ELSE IF ~KnownType(d[2])
                 THEN call' = Raised(op, "ValueError", <<get>>, dresp)
                 ELSE LET post == Request("POST",
                                          [root |-> "v1",
                                           path |-> "cmsquery?page=1&pagesize=50000",
                                           id |-> None],
                                          headers, QueryPayload(d[2], universe_id))
                      IN
                      \/ call' = WithFirst(Raised(op, "ConnectionError", <<get, post>>,
                                                  NoResponse), dresp)
                      \/ \E status \in {200, 500}, body \in QueryBodies :
                           call' = WithFirst(RelatedReports(op, <<get, post>>,
                                                            [status |-> status, body |-> body],
                                                            d[2]),
                                             dresp)
    /\ UNCHANGED clientVars
    /\ UNCHANGED folderVars

\* get_univ_related_conn_id
get_univ_related_conn_id ==
    /\ IsIdle
    /\ \E universe_id \in UniverseIds :
        LET post == Request("POST",
                            [root |-> "v1", path |-> "cmsquery?page=1&pagesize=50000",
                             id |-> None],
                            headers,
                            [select |-> <<"SI_NAME", "SI_SPECIFIC_KIND", "SI_DATACONNECTION">>,
                             from |-> "ci_appobjects, ci_infoobjects",
                             SI_KIND |-> None, SI_ID |-> universe_id])
            op == "get_univ_related_conn_id" IN
        \/ call' = Raised(op, "ConnectionError", <<post>>, NoResponse)
        \/ \E status \in {200, 500}, kind \in {"wellformed", "empty", "notjson"} :
            LET resp == [status |-> status, body |-> [kind |-> kind]] IN
            call' = IF status = 200
                    THEN CASE kind = "notjson" -> Raised(op, "ValueError", <<post>>, resp)
                           [] kind = "empty" -> Raised(op, "KeyError", <<post>>, resp)
                           [] OTHER -> Returned(op, "str", "conn-1", <<post>>, resp)
                    ELSE Raised(op, "Exception", <<post>>, resp)
    /\ UNCHANGED clientVars
    /\ UNCHANGED folderVars

----------------------------------------------------------------------------
(* Resource navigator *)

MaxFolders == 4     \* folders below the root in a generated hierarchy

RootFolder == 0

RECURSIVE SortedSeq(_, _)
SortedSeq(S, order) ==
    IF S = {} THEN << >>
    ELSE LET m == IF order = "asc"
                  THEN CHOOSE x \in S : \A y \in S : x <= y
                  ELSE CHOOSE x \in S : \A y \in S : x >= y
         IN <<m>> \o SortedSeq(S \ {m}, order)

\* every tree over folders 0..n (folder i hangs below a folder with a smaller
\* id), the server listing siblings in ascending or in descending id order
GeneratedTrees ==
    UNION {{[k \in 0..n |-> SortedSeq({i \in 1..n : p[i] = k}, order)] :
               p \in {q \in [1..n -> 0..n] : \A i \in 1..n : q[i] < i},
               order \in {"asc", "desc"}} :
           n \in 0..MaxFolders}

\* the full binary tree with two levels below the root
BinaryTree ==
    [k \in 0..6 |-> CASE k = 0 -> <<1, 2>> [] k = 1 -> <<3, 4>> [] k = 2 -> <<5, 6>>
                      [] OTHER -> << >>]

FolderTrees == GeneratedTrees \cup {BinaryTree}

\* a hierarchy of the root and at most one folder below it
SmallTree(t) == Cardinality(DOMAIN t) <= 2

FolderRequest(folder_id) ==
    Request("GET",
            [root |-> "biprws", path |-> "infostore/{}/children?type=Folder&page=1&pagesize=10000",
             id |-> folder_id],
            headers, None)

Frame(folder_id) == [folder_id |-> folder_id, pc |-> "request", entries |-> << >>, i |-> 0]

Top == stack[Len(stack)]
Pop == SubSeq(stack, 1, Len(stack) - 1)

FoldersRunning == stack # << >>

\* resp.status_code == 200 in get_folders
\* faulty variant: any 2xx counts as success
FoldersOkAny2xx(status) == status \in 200..299
FoldersOk(status) == status = 200

\* line 309: the id the loop records, entry['id']
\* faulty variant: the folder being listed is recorded
RecordedSelf(frame) == frame.folder_id
Recorded(frame) == frame.entries[frame.i]

\* the call by the caller: folder_list is None, so a fresh list
get_folders_call(small) ==
    /\ IsIdle
    /\ \E t \in FolderTrees :
        /\ small => SmallTree(t)
        /\ tree' = t
        /\ \E f \in SUBSET DOMAIN t :
            /\ failing' = f
            /\ failStatus' \in IF f = {} THEN {404} ELSE {204, 404}
    /\ folder_list' = << >>
    /\ stack' = <<Frame(RootFolder)>>
    /\ call' = [Idle EXCEPT !.op = "get_folders", !.outcome = "running", !.pre = Pre]
    /\ UNCHANGED clientVars

\* return from the frame on top: to the frame below, or to the caller
ReturnFromFrame(sent, resp) ==
    /\ stack' = Pop
    /\ call' = IF Len(stack) = 1
               THEN [Returned("get_folders", "list", folder_list', sent, resp)
                        EXCEPT !.pre = call.pre]
               ELSE [call EXCEPT !.sent = sent, !.resp = resp]

\* lines 304-306: the frame on top lists the children of its folder (a 200
\* answer carries the listing the server holds for that folder)
get_folders_request ==
    /\ FoldersRunning
    /\ Top.pc = "request"
    /\ LET get == FolderRequest(Top.folder_id)
           sent == Append(call.sent, get) IN
        \/ \* no response: ConnectionError unwinds every frame
           /\ stack' = << >>
           /\ call' = [Raised("get_folders", "ConnectionError", sent, NoResponse)
                          EXCEPT !.pre = call.pre]
           /\ UNCHANGED folder_list
        \/ LET status == IF Top.folder_id \in failing THEN failStatus ELSE 200
               resp == [status |-> status, body |-> [kind |-> "entries"]] IN
            IF FoldersOk(status)
            THEN /\ stack' = [stack EXCEPT ![Len(stack)] =
                                [@ EXCEPT !.pc = "loop", !.entries = tree[Top.folder_id],
                                          !.i = 1]]
                 /\ call' = [call EXCEPT !.sent = sent, !.resp = resp]
                 /\ UNCHANGED folder_list
            ELSE /\ UNCHANGED folder_list
                 /\ ReturnFromFrame(sent, resp)
    /\ UNCHANGED <<tree, failing, failStatus>>
    /\ UNCHANGED clientVars

\* lines 308-311: one turn of the loop over the entries, or the return after it
get_folders_loop ==
    /\ FoldersRunning
    /\ Top.pc = "loop"
    /\ IF Top.i <= Len(Top.entries)
       THEN /\ folder_list' = Append(folder_list, Recorded(Top))
            /\ stack' = Append([stack EXCEPT ![Len(stack)] = [@ EXCEPT !.i = @ + 1]],
                               Frame(Top.entries[Top.i]))
            /\ UNCHANGED call
       ELSE /\ UNCHANGED folder_list
            /\ ReturnFromFrame(call.sent, call.resp)
    /\ UNCHANGED <<tree, failing, failStatus>>
    /\ UNCHANGED clientVars

\* get_webi_docs: one listing, no recursion
get_webi_docs ==
    /\ IsIdle
    /\ \E folder_id \in {RootFolder} :
        LET get == Request("GET",
                           [root |-> "biprws",
                            path |-> "infostore/{}/children?type=Webi&page=1&pagesize=10000",
                            id |-> folder_id],
                           headers, None)
            op == "get_webi_docs" IN
        \/ call' = Raised(op, "ConnectionError", <<get>>, NoResponse)
        \/ \E status \in {200, 404}, kind \in {"entries", "empty", "notjson"} :
            LET resp == [status |-> status, body |-> [kind |-> kind]] IN
            call' = IF status = 200
                    THEN CASE kind = "notjson" -> Raised(op, "ValueError", <<get>>, resp)
                           [] kind = "empty" -> Raised(op, "KeyError", <<get>>, resp)
                           [] OTHER -> Returned(op, "list", <<101, 102>>, <<get>>, resp)
                    ELSE Returned(op, "list", << >>, <<get>>, resp)
    /\ UNCHANGED clientVars
    /\ UNCHANGED folderVars

\* the caller takes the result of the finished call; the hierarchy a traversal
\* saw is the server's at the time of that call and is not kept
Return ==
    /\ ~IsIdle
    /\ ~FoldersRunning
    /\ call' = Idle
    /\ tree' = << >>
    /\ failing' = {}
    /\ failStatus' = 0
    /\ folder_list' = << >>
    /\ UNCHANGED stack
    /\ UNCHANGED clientVars

----------------------------------------------------------------------------
Init ==
    /\ headers = InitHeaders
    /\ logon_token = None
    /\ session = "open"
    /\ issued = None
    /\ call = Idle
    /\ tree = << >>
    /\ failing = {}
    /\ failStatus = 0
    /\ stack = << >>
    /\ folder_list = << >>

Next ==
    \/ set_logon_token
    \/ set_trusted_token
    \/ bo_logoff
    \/ get_doc_status
    \/ get_doc_details
    \/ delete_webi_doc
    \/ save_webi_doc
    \/ get_dp
    \/ get_dp_details
    \/ purge_dp
    \/ get_universes
    \/ get_univ_details
    \/ get_universe_related_reports
    \/ get_univ_related_conn_id
    \/ get_webi_docs
    \/ get_folders_call(TRUE)
    \/ get_folders_request
    \/ get_folders_loop
    \/ Return

Spec == Init /\ [][Next]_vars

\* the navigator alone, over every hierarchy of FolderTrees; the recursion takes its
\* next step whenever it has one (the server answers every request)
NextFolders ==
    \/ get_folders_call(FALSE)
    \/ get_folders_request
    \/ get_folders_loop
    \/ Return

SpecFolders ==
    Init /\ [][NextFolders]_vars /\ WF_vars(get_folders_request \/ get_folders_loop)

----------------------------------------------------------------------------
(* Properties *)

Op(name) == call.op = name
DidReturn == call.outcome = "returned"
DidRaise == call.outcome = "raised"
ReturnedNone == DidReturn /\ call.kind = "none"
ReturnedBool(b) == DidReturn /\ call.kind = "bool" /\ call.value = b
Status == call.resp.status
GotResponse == Status # 0

\* C1: once an authentication has returned, every request sent afterwards, by
\* whatever operation, carries X-SAP-LogonToken equal to the token of the most
\* recent authentication that returned; that token is the one value installed
\* in the header mapping and in logon_token.
C1_TokenCarried ==
    /\ call.pre.issued # None =>
         \A i \in DOMAIN call.sent :
            HeaderOf(call.sent[i].headers, TokenHeader) = call.pre.issued
    /\ issued # None =>
         /\ HeaderOf(headers, TokenHeader) = issued
         /\ logon_token = issued

\* a second authentication has replaced the token of the first, and sent its own
\* request under the first token
C1_Witness ==
    /\ Op("set_trusted_token") /\ DidReturn
    /\ call.pre.issued = "tokA" /\ issued = "tokB"
    /\ Len(call.sent) = 1

\* the login submission of the last call was answered
SubmissionAnswered ==
    /\ GotResponse
    /\ \/ Op("set_logon_token") /\ Len(call.sent) = 2
       \/ Op("set_trusted_token")

\* C2: when the login submission of either flow is answered with a status other
\* than 200, the call raises, and a token that was unset before the call
\* (header and logon_token) is unset after it.
C2_FailedLogonRaises ==
    (SubmissionAnswered /\ Status # 200) =>
        /\ DidRaise
        /\ (TokenHeader \notin DOMAIN call.pre.headers => TokenHeader \notin DOMAIN headers)
        /\ (call.pre.logon_token = None => logon_token = None)

C2_Witness ==
    /\ Op("set_logon_token") /\ SubmissionAnswered /\ Status = 401
    /\ call.exc = "Exception"
    /\ logon_token = None /\ TokenHeader \notin DOMAIN headers

\* the response of the universe-details request of get_universe_related_reports
DetailsResp == IF Len(call.sent) = 2 THEN call.first ELSE call.resp
HasDetails ==
    /\ Op("get_universe_related_reports")
    /\ DetailsResp.status = 200 /\ DetailsResp.body.kind = "universe"
DetailsType == Lower(DetailsResp.body.type)
Range(seq) == {seq[i] : i \in DOMAIN seq}
QueryNames(field) ==
    /\ Len(call.sent) = 2
    /\ call.sent[2].method = "POST"
    /\ field \in Range(call.sent[2].body.select)
    /\ \A f \in ReportFields \ {field} : f \notin Range(call.sent[2].body.select)

\* C3 (as amended): for type 'unx' the query names SI_SL_DOCUMENTS, for 'unv'
\* SI_WEBI, and for any other type the call raises ValueError after the
\* universe-details request and before the query: that GET is the only request sent.
C3_QueryByType ==
    HasDetails =>
        /\ DetailsType = "unx" => QueryNames("SI_SL_DOCUMENTS")
        /\ DetailsType = "unv" => QueryNames("SI_WEBI")
        /\ DetailsType \notin {"unx", "unv"} =>
              /\ DidRaise /\ call.exc = "ValueError"
              /\ Len(call.sent) = 1 /\ call.sent[1].method = "GET"

\* C3 as stated: ... any other type raises ValueError with no request sent at all.
C3_NoRequestBeforeValueError ==
    HasDetails =>
        /\ DetailsType = "unx" => QueryNames("SI_SL_DOCUMENTS")
        /\ DetailsType = "unv" => QueryNames("SI_WEBI")
        /\ DetailsType \notin {"unx", "unv"} =>
              /\ DidRaise /\ call.exc = "ValueError"
              /\ call.sent = << >>

C3_Witness ==
    /\ HasDetails /\ DetailsResp.body.type = "dfx"
    /\ call.exc = "ValueError" /\ Len(call.sent) = 1

ReportPositions(items) == {i \in DOMAIN items : items[i][1] # TotalKey}

\* C7: on a 200 query response the returned report sequence holds exactly the
\* values of the harvested field's entries whose key is not SI_TOTAL, once each
\* and in the field's order; the SI_TOTAL entry contributes nothing, whatever the
\* number of reports (none included).
C7_TotalExcluded ==
    (Op("get_universe_related_reports") /\ DidReturn) =>
        LET items == call.resp.body.items
            reports == call.value[3]
            P == ReportPositions(items)
        IN  /\ Status = 200
            /\ Len(reports) = Cardinality(P)
            /\ \A k \in P :
                 reports[Cardinality({m \in P : m <= k})] = items[k][2]

\* a field holding SI_TOTAL between two reports
C7_Witness ==
    /\ Op("get_universe_related_reports") /\ DidReturn
    /\ Len(call.resp.body.items) = 3
    /\ call.resp.body.items[2][1] = TotalKey
    /\ Len(call.value[3]) = 2

DocumentOps ==
    {"get_doc_details", "get_doc_status", "delete_webi_doc", "save_webi_doc",
     "get_dp", "get_dp_details", "purge_dp"}

\* C9: each document/data-provider call returns without raising when its request
\* gets a 2xx response with a well-formed body, a non-2xx response, or no
\* response at all.
C9_NeverRaises ==
    (call.op \in DocumentOps
       /\ \/ ~GotResponse
          \/ ~Is2xx(Status)
          \/ Is2xx(Status) /\ call.resp.body.kind = "wellformed") => DidReturn

\* C10: once bo_logoff has finished, by returning or by raising, the session is closed.
C10_LogoffReleases == Op("bo_logoff") => session = "closed"

----------------------------------------------------------------------------
(* The folder tree as the server holds it, for the traversal's result *)

\* the children of folder n; with `pruned`, a failing folder shows none
ChildSet(n) == Range(tree[n])
ListedChildSet(n) == IF n \in failing THEN {} ELSE ChildSet(n)
Children(n, pruned) == IF pruned THEN ListedChildSet(n) ELSE ChildSet(n)

RECURSIVE DescendantsWithin(_, _, _)
DescendantsWithin(n, k, pruned) ==
    IF k = 0 THEN {}
    ELSE LET D == DescendantsWithin(n, k - 1, pruned)
         IN Children(n, pruned) \cup UNION {Children(d, pruned) : d \in D}

\* the proper descendants of folder n; with `pruned`, those not below a failing folder
Descendants(n, pruned) == DescendantsWithin(n, Cardinality(DOMAIN tree), pruned)

Pos(x, seq) == CHOOSE i \in DOMAIN seq : seq[i] = x

\* `result` is the depth-first pre-order listing of the descendants of the root:
\* each of them exactly once, never the root, each folder immediately followed
\* by the block of its own descendants, siblings in the order listed
IsPreOrder(result, pruned) ==
    /\ Range(result) = Descendants(RootFolder, pruned)
    /\ Len(result) = Cardinality(Descendants(RootFolder, pruned))
    /\ RootFolder \notin Range(result)
    /\ \A n \in Range(result) :
         {Pos(d, result) : d \in Descendants(n, pruned)}
            = (Pos(n, result) + 1)..(Pos(n, result) + Cardinality(Descendants(n, pruned)))
    /\ \A p \in {RootFolder} \cup Range(result) : \A i, j \in DOMAIN tree[p] :
         (Children(p, pruned) # {} /\ i < j) =>
            Pos(tree[p][i], result) < Pos(tree[p][j], result)

FoldersReturned == Op("get_folders") /\ DidReturn

C4_Result ==
    (FoldersReturned /\ failing = {}) =>
        /\ IsPreOrder(call.value, FALSE)
        /\ Len(call.sent) = Cardinality(DOMAIN tree)

\* C4: on a tree whose listings all answer 200, get_folders terminates and returns
\* every proper descendant of the root exactly once, never the root, in
\* depth-first pre-order with siblings in the order the server lists them; it
\* sends one listing request per folder.
C4_PreOrder ==
    /\ []C4_Result
    /\ (FoldersRunning /\ failing = {}) ~> ~FoldersRunning

C4_Witness ==
    /\ FoldersReturned /\ failing = {} /\ tree = BinaryTree
    /\ call.value = <<1, 3, 4, 2, 5, 6>>

\* C8: a listing that answers non-200 propagates no error: the traversal returns
\* the pre-order listing of the tree with the subtree below every failing folder
\* pruned (the failing folder itself and everything recorded before it are kept,
\* a failing root gives the empty sequence); get_folders raises only when a
\* request gets no response.
C8_PrunedPreOrder ==
    /\ FoldersReturned => IsPreOrder(call.value, TRUE)
    /\ (Op("get_folders") /\ DidRaise) => (call.exc = "ConnectionError" /\ ~GotResponse)

\* folder 1 fails with children of its own, and its sibling's subtree is still listed
C8_Witness ==
    /\ FoldersReturned /\ tree = BinaryTree /\ failing = {1} /\ failStatus = 404
    /\ call.value = <<1, 2, 5, 6>>

----------------------------------------------------------------------------
(* Login flows: the requests they send and what a failed one leaves behind *)

IsTemplateFetch(r) ==
    /\ r.method = "GET" /\ r.url = "logon/long"
    /\ TrustedHeader \notin DOMAIN r.headers

IsSubmission(r) == r.method = "POST" /\ r.url = "logon/long"

\* C11: set_logon_token sends the template fetch (GET logon/long) first and, once
\* the template is read, the credential submission (POST logon/long) second and
\* last, its payload being the template fetched in this very call with the
\* credentials filled in; set_trusted_token sends exactly one request, a GET to
\* logon/trusted carrying X-SAP-TRUSTED-USER, and never a template fetch.
C11_LoginRequestOrder ==
    /\ Op("set_logon_token") =>
         /\ Len(call.sent) \in {1, 2}
         /\ IsTemplateFetch(call.sent[1])
         /\ Len(call.sent) = 2 =>
              /\ IsSubmission(call.sent[2])
              /\ call.first.body.kind = "template"
              /\ call.sent[2].body.template = call.first.body.template
              /\ call.sent[2].body.userName \in Users
              /\ call.sent[2].body.password \in Passwords
         /\ Len(call.sent) = 1 =>
              (DidRaise /\ (~GotResponse \/ call.resp.body.kind = "notjson"))
    /\ Op("set_trusted_token") =>
         /\ Len(call.sent) = 1
         /\ call.sent[1].method = "GET" /\ call.sent[1].url = "logon/trusted"
         /\ HeaderOf(call.sent[1].headers, TrustedHeader) \in Users

\* a login whose template is not the one a first call would have seen
C11_Witness ==
    /\ Op("set_logon_token") /\ DidReturn
    /\ call.pre.issued # None
    /\ Len(call.sent) = 2
    /\ call.first.body.template = "secLDAP"
    /\ call.sent[2].body.template = "secLDAP"

\* C12: a login whose submission is answered with a status other than 200 leaves
\* the shared header mapping and logon_token exactly as the call found them, so
\* a token installed by an earlier login stays installed; every request of every
\* operation carries the token header of the mapping as the call found it; and
\* X-SAP-TRUSTED-USER is never in the shared mapping.
C12_FailedLogonFrame ==
    /\ (SubmissionAnswered /\ Status # 200) =>
         /\ headers = call.pre.headers
         /\ logon_token = call.pre.logon_token
    /\ ~IsIdle =>
         \A i \in DOMAIN call.sent :
            HeaderOf(call.sent[i].headers, TokenHeader)
               = HeaderOf(call.pre.headers, TokenHeader)
    /\ TrustedHeader \notin DOMAIN headers

\* a trusted login is refused after an earlier login had installed a token
C12_Witness ==
    /\ Op("set_trusted_token") /\ SubmissionAnswered /\ Status = 401
    /\ call.pre.logon_token = "tokA" /\ logon_token = "tokA"
    /\ HeaderOf(headers, TokenHeader) = "tokA"
    /\ HeaderOf(call.sent[1].headers, TokenHeader) = "tokA"

====
